---- MODULE Spec2Model ----
(***************************************************************************)
(* XFIFaucet: the faucet contract's rate-limiting and accounting state     *)
(* machine (Smart Contract/contracts/XFIFaucet.sol), together with the     *)
(* external ERC20 ledger it calls.  One action per external function; a    *)
(* reverting call leaves the contract storage as it was.                   *)
(***************************************************************************)
EXTENDS Integers, Sequences, FiniteSets, TLC

(***************************************************************************)
(* Bounds of the model.                                                    *)
(***************************************************************************)
\* number of blocks mined after deployment (each one moves block.timestamp)
MaxBlocks == 2
\* cap on the number of successful claims (totalRequests)
MaxRequests == 2
\* largest ordinary token amount; also the total supply of the token ledger
MaxAmount == 2

(***************************************************************************)
(* Program constants and the input sets the actions draw from.             *)
(***************************************************************************)
\* "1 days" in Solidity
DAY == 86400
\* stand-in for type(uint256).max: Solidity 0.8 arithmetic is checked, so a
\* result above it (or below 0) reverts with Panic(0x11) instead of wrapping
UintMax == 2^20 - 1

Owner == "owner"
Addresses == {"owner", "alice"}
None == 0 - 1
NoGap == <<>>
NoCall == <<>>

TokenSupply == MaxAmount
\* what the external token ledger does with a transfer/transferFrom call
TokenOutcomes == {"ok", "false", "revert"}
\* clock advances between blocks
TimeSteps == {DAY \div 2}
\* configurations <<tokensPerRequest, cooldownTime, maxTokensPerDay>> the
\* owner passes to updateFaucetConfig: the deployed shape (one request per
\* day), several requests per day, a lowered cap with the longest cooldown,
\* a cap below the request amount, and a zero amount
ConfigInputs ==
    { <<MaxAmount, DAY, MaxAmount>>, <<1, 0, MaxAmount>>, <<1, UintMax, 1>>,
      <<MaxAmount, 0, 1>>, <<0, 0, 1>> }
DepositInputs == {0, 1, MaxAmount}
WithdrawInputs == {0, 1, TokenSupply + 1}

VARIABLES
    \* contract storage
    tokensPerRequest, cooldownTime, maxTokensPerDay, minTokenBalance,
    nextRequestTime, dailyRequested, lastRequestDay,
    totalRequests, totalTokensDistributed,
    paused,
    \* external token ledger: the faucet's balance and the accounts' balances
    pool, bal,
    \* chain: block.timestamp, block.number
    now, blockNumber,
    \* history: what really happened, recorded independently of the storage
    histLastClaimTime, histLastCooldown, histResetSince, histGap,
    histDayPaid, histCapAtClaim, histSumPaid, histEvents, histClaims,
    \* history of the pool: the balance the faucet started with, plus what
    \* depositors paid in, minus what the owner received from withdrawals
    histFunded,
    \* the execution of requestTokens: the lock of the nonReentrant modifier,
    \* the call that is inside xfiToken.transfer, and, for the latest such
    \* call, the claims paid from inside it and the way it ended
    lock, inflight, histNested, histExit,
    \* the web client of one wallet: which of the two versions of the page
    \* it runs, its React state (userCanRequest.canRequest, isLoading, and
    \* the time at which the countdown timeUntilNext reaches 0), and its
    \* history: the latest answer of canUserRequest it received, that answer
    \* as it was when the transaction in flight was submitted, and the views
    \* it called after its latest confirmed claim
    clientVersion, userCanRequest, isLoading, timerEnd,
    histPolled, histPolledAtSubmit, histRepolled

config == <<tokensPerRequest, cooldownTime, maxTokensPerDay, minTokenBalance>>
ledger == <<nextRequestTime, dailyRequested, lastRequestDay>>
stats == <<totalRequests, totalTokensDistributed>>
token == <<pool, bal>>
storage == <<config, ledger, stats, paused>>
chain == <<now, blockNumber>>
claimHist == <<histLastClaimTime, histLastCooldown, histResetSince, histGap,
               histDayPaid, histCapAtClaim, histSumPaid, histEvents, histClaims>>
hist == <<claimHist, histFunded>>
call == <<lock, inflight, histNested, histExit>>
client == <<clientVersion, userCanRequest, isLoading, timerEnd,
            histPolled, histPolledAtSubmit, histRepolled>>
vars == <<storage, token, chain, hist, call, client>>

(***************************************************************************)
(* Checked uint256 arithmetic.                                             *)
(***************************************************************************)
AddOverflows(a, b) == a + b > UintMax
SubUnderflows(a, b) == a < b

(***************************************************************************)
(* No web client is connected.                                             *)
(***************************************************************************)
NoClient ==
    /\ clientVersion = "none"
    /\ userCanRequest = TRUE
    /\ isLoading = FALSE
    /\ timerEnd = 0
    /\ histPolled = "none"
    /\ histPolledAtSubmit = "none"
    /\ histRepolled = {}

(***************************************************************************)
(* Deployment: the constructor stores its arguments unvalidated.           *)
(***************************************************************************)
Init ==
    /\ tokensPerRequest = MaxAmount
    /\ cooldownTime = DAY
    /\ maxTokensPerDay = MaxAmount
    /\ minTokenBalance = tokensPerRequest
    /\ nextRequestTime = [a \in Addresses |-> 0]
    /\ dailyRequested = [a \in Addresses |-> 0]
    /\ lastRequestDay = [a \in Addresses |-> 0]
    /\ totalRequests = 0
    /\ totalTokensDistributed = 0
    /\ paused = FALSE
    /\ pool = 0
    /\ bal = [a \in Addresses |-> IF a = Owner THEN TokenSupply ELSE 0]
    /\ now = 0
    /\ blockNumber = 0
    /\ histLastClaimTime = [a \in Addresses |-> None]
    /\ histLastCooldown = [a \in Addresses |-> 0]
    /\ histResetSince = [a \in Addresses |-> FALSE]
    /\ histGap = [a \in Addresses |-> NoGap]
    /\ histDayPaid = [a \in Addresses |-> 0]
    /\ histCapAtClaim = [a \in Addresses |-> 0]
    /\ histSumPaid = 0
    /\ histEvents = 0
    /\ histClaims = 0
    /\ histFunded = 0
    /\ lock = FALSE
    /\ inflight = NoCall
    /\ histNested = 0
    /\ histExit = "none"
    /\ NoClient

(***************************************************************************)
(* The external token ledger (IERC20).  The caller of the model chooses    *)
(* what the ledger answers; a ledger never reports success for a transfer  *)
(* of more than the sender holds.                                          *)
(***************************************************************************)
TokenAnswer(balance, amount, outcome) ==
    IF outcome = "ok" /\ amount > balance THEN "revert" ELSE outcome

(***************************************************************************)
(* requestTokens                                                           *)
(***************************************************************************)
CurrentDay == now \div DAY

\* variant: the comparison the wrong way round
CooldownCheckFails_inverted(user) == now > nextRequestTime[user]
CooldownCheckFails(user) == now < nextRequestTime[user]

\* the argument of CooldownActive
\* variant: the whole cooldown, not what is left of it
TimeRemaining_wholeCooldown(user) == cooldownTime
TimeRemaining(user) == nextRequestTime[user] - now

\* variant: <= for <, so the counter is reset on every claim
IsNewDay_orSameDay(user) == lastRequestDay[user] <= CurrentDay
IsNewDay(user) == lastRequestDay[user] < CurrentDay

\* dailyRequested[user] and lastRequestDay[user] as stored after the
\* "reset daily counter if new day" block
\* variant: the counter of an earlier day is carried over
DailyAfterRollover_carriedOver(user) == dailyRequested[user]
DailyAfterRollover(user) == IF IsNewDay(user) THEN 0 ELSE dailyRequested[user]
\* variant: the day of the claim is not stored
DayAfterRollover_notStored(user) == lastRequestDay[user]
DayAfterRollover(user) == IF IsNewDay(user) THEN CurrentDay ELSE lastRequestDay[user]

\* variant: the amount being requested is left out of the comparison
DailyLimitCheckFails_withoutRequest(user) ==
    DailyAfterRollover(user) > maxTokensPerDay
DailyLimitCheckFails(user) ==
    DailyAfterRollover(user) + tokensPerRequest > maxTokensPerDay

BalanceCheckFails == pool < tokensPerRequest

\* variant: the cooldown is not added
NewNextRequestTime_noCooldown == now
NewNextRequestTime == now + cooldownTime

\* variant: counts requests instead of tokens
NewTotalDistributed_counting == totalTokensDistributed + 1
NewTotalDistributed == totalTokensDistributed + tokensPerRequest

\* the amount handed to xfiToken.transfer
\* variant: hands out the daily cap
TransferAmount_dailyCap == maxTokensPerDay
TransferAmount == tokensPerRequest

\* "if (!success) revert TransferFailed()"
\* variant: the returned flag is not looked at
TransferReturnedFalse_unchecked(answer) == FALSE
TransferReturnedFalse(answer) == answer = "false"

\* the error requestTokens exits with on the token ledger's answer
TransferError(answer) ==
    IF answer = "revert" THEN "TokenReverted"
    ELSE IF TransferReturnedFalse(answer) THEN "TransferFailed"
    ELSE "ok"

\* the part of the storage requestTokens writes
Pre ==
    [nrt |-> nextRequestTime, dr |-> dailyRequested, lrd |-> lastRequestDay,
     tr |-> totalRequests, ttd |-> totalTokensDistributed]

AfterRollover(user) ==
    [Pre EXCEPT !.dr = [@ EXCEPT ![user] = DailyAfterRollover(user)],
                !.lrd = [@ EXCEPT ![user] = DayAfterRollover(user)]]

AfterUpdate(user) ==
    [AfterRollover(user) EXCEPT
        !.nrt = [@ EXCEPT ![user] = NewNextRequestTime],
        !.dr = [@ EXCEPT ![user] = @ + tokensPerRequest],
        !.tr = @ + 1,
        !.ttd = NewTotalDistributed]

Run(err, arg, written) == [err |-> err, arg |-> arg, written |-> written]

\* the nonReentrant modifier: a call made while the lock is held reverts
\* variant: the modifier is left off
NonReentrantFails_unguarded == FALSE
NonReentrantFails == lock

\* One execution of requestTokens by `user`, up to its exit: the error it
\* exits with ("ok" for none), the error's argument, and the storage as
\* written at that point.  The nonReentrant modifier runs first, then
\* whenNotPaused.
requestTokensRun(user, outcome) ==
    IF NonReentrantFails THEN Run("ReentrantCall", 0, Pre)
    ELSE IF paused THEN Run("Paused", 0, Pre)
    ELSE IF CooldownCheckFails(user)
        THEN Run("CooldownActive", TimeRemaining(user), Pre)
    ELSE IF AddOverflows(DailyAfterRollover(user), tokensPerRequest)
        THEN Run("Panic", 0, AfterRollover(user))
    ELSE IF DailyLimitCheckFails(user)
        THEN IF SubUnderflows(maxTokensPerDay, DailyAfterRollover(user))
                THEN Run("Panic", 0, AfterRollover(user))
                ELSE Run("DailyLimitExceeded",
                         maxTokensPerDay - DailyAfterRollover(user),
                         AfterRollover(user))
    ELSE IF BalanceCheckFails
        THEN Run("InsufficientFaucetBalance", 0, AfterRollover(user))
    ELSE IF AddOverflows(now, cooldownTime)
        THEN Run("Panic", 0, AfterRollover(user))
    ELSE IF AddOverflows(totalRequests, 1)
            \/ AddOverflows(totalTokensDistributed, tokensPerRequest)
        THEN Run("Panic", 0, AfterRollover(user))
    ELSE Run(TransferError(TokenAnswer(pool, TransferAmount, outcome)), 0,
             AfterUpdate(user))

\* a revert discards every write of the call
\* variant: the call returns instead of reverting, keeping what it wrote
Reverted_keepingWrites(before, written) == written
Reverted(before, written) == before

NoEvent == <<>>

\* "emit TokensRequested(user, tokensPerRequest)", the last statement
\* variant: the event is logged by the failing call too
ClaimEvent_alsoOnFailure(user, ok) == <<"TokensRequested", user, tokensPerRequest>>
ClaimEvent(user, ok) ==
    IF ok THEN <<"TokensRequested", user, tokensPerRequest>> ELSE NoEvent

\* The state a requestTokens transaction by `user` leaves behind: the storage
\* it commits, the token balances, and the event it logs.
requestTokensPost(user, outcome) ==
    LET run == requestTokensRun(user, outcome)
        ok == run.err = "ok"
        st == IF ok THEN run.written ELSE Reverted(Pre, run.written)
        paid == IF ok THEN TransferAmount ELSE 0
    IN  [nrt |-> st.nrt, dr |-> st.dr, lrd |-> st.lrd,
         tr |-> st.tr, ttd |-> st.ttd,
         pool |-> pool - paid,
         bal |-> [bal EXCEPT ![user] = @ + paid],
         paid |-> paid,
         event |-> ClaimEvent(user, ok)]

\* the history of a successful claim by `user` that paid `paid`
RecordClaim(user, paid) ==
    LET sameBucket == /\ histLastClaimTime[user] # None
                      /\ histLastClaimTime[user] \div DAY = now \div DAY
    IN  /\ histGap' = [histGap EXCEPT ![user] =
               IF histLastClaimTime[user] # None /\ ~histResetSince[user]
                   THEN <<now - histLastClaimTime[user], histLastCooldown[user]>>
                   ELSE NoGap]
        /\ histLastClaimTime' = [histLastClaimTime EXCEPT ![user] = now]
        /\ histLastCooldown' = [histLastCooldown EXCEPT ![user] = cooldownTime]
        /\ histResetSince' = [histResetSince EXCEPT ![user] = FALSE]
        /\ histDayPaid' = [histDayPaid EXCEPT ![user] =
               IF sameBucket THEN @ + paid ELSE paid]
        /\ histCapAtClaim' = [histCapAtClaim EXCEPT ![user] = maxTokensPerDay]
        /\ histSumPaid' = histSumPaid + paid
        /\ histClaims' = histClaims + 1

\* the transaction of requestTokens as the chain executes it
requestTokensTx(user, outcome) ==
    LET post == requestTokensPost(user, outcome)
        ok == requestTokensRun(user, outcome).err = "ok"
    IN  /\ totalRequests < MaxRequests
        /\ nextRequestTime' = post.nrt
        /\ dailyRequested' = post.dr
        /\ lastRequestDay' = post.lrd
        /\ totalRequests' = post.tr
        /\ totalTokensDistributed' = post.ttd
        /\ pool' = post.pool
        /\ bal' = post.bal
        /\ histEvents' = histEvents + (IF post.event # NoEvent THEN 1 ELSE 0)
        /\ IF ok
            THEN RecordClaim(user, post.paid)
            ELSE UNCHANGED <<histGap, histLastClaimTime, histLastCooldown,
                             histResetSince, histDayPaid, histCapAtClaim,
                             histSumPaid, histClaims>>
        /\ UNCHANGED <<config, paused, chain, call, histFunded>>

requestTokens(user, outcome) ==
    /\ requestTokensTx(user, outcome)
    /\ UNCHANGED client

(***************************************************************************)
(* Views                                                                   *)
(***************************************************************************)
getNextRequestTime(user) == nextRequestTime[user]

\* variant: the whole cooldownTime while the cooldown runs
getRemainingCooldown_wholeCooldown(user) ==
    LET nextRequest == nextRequestTime[user] IN
    IF nextRequest <= now THEN 0 ELSE cooldownTime
getRemainingCooldown(user) ==
    LET nextRequest == nextRequestTime[user] IN
    IF nextRequest <= now THEN 0 ELSE nextRequest - now

\* "remaining = maxTokensPerDay > requested ? maxTokensPerDay - requested : 0"
\* variant: the subtraction without the comparison in front of it
DailyRemaining_unguarded(requested) == maxTokensPerDay - requested
DailyRemaining(requested) ==
    IF maxTokensPerDay > requested THEN maxTokensPerDay - requested ELSE 0

getDailyUsage(user) ==
    LET requested == IF lastRequestDay[user] < CurrentDay
                        THEN 0 ELSE dailyRequested[user]
    IN  [requested |-> requested, remaining |-> DailyRemaining(requested)]

View(reverted, canRequest, reason) ==
    [reverted |-> reverted, canRequest |-> canRequest, reason |-> reason]

\* canUserRequest's first check
\* variant: the pause flag is looked at before the cooldown
ViewCooldownActive_unlessPaused(user) == ~paused /\ now < nextRequestTime[user]
ViewCooldownActive(user) == now < nextRequestTime[user]

\* variant: the pause flag is checked first, as requestTokens checks it
canUserRequest_pauseFirst(user) ==
    LET dailyUsed == IF lastRequestDay[user] < CurrentDay
                        THEN 0 ELSE dailyRequested[user]
    IN  IF paused THEN View(FALSE, FALSE, "Faucet is paused")
        ELSE IF ViewCooldownActive(user) THEN View(FALSE, FALSE, "Cooldown active")
        ELSE IF AddOverflows(dailyUsed, tokensPerRequest)
            THEN View(TRUE, FALSE, "Panic")
        ELSE IF dailyUsed + tokensPerRequest > maxTokensPerDay
            THEN View(FALSE, FALSE, "Daily limit exceeded")
        ELSE IF pool < tokensPerRequest
            THEN View(FALSE, FALSE, "Insufficient faucet balance")
        ELSE View(FALSE, TRUE, "")
canUserRequest(user) ==
    LET dailyUsed == IF lastRequestDay[user] < CurrentDay
                        THEN 0 ELSE dailyRequested[user]
    IN  IF ViewCooldownActive(user) THEN View(FALSE, FALSE, "Cooldown active")
        ELSE IF AddOverflows(dailyUsed, tokensPerRequest)
            THEN View(TRUE, FALSE, "Panic")
        ELSE IF dailyUsed + tokensPerRequest > maxTokensPerDay
            THEN View(FALSE, FALSE, "Daily limit exceeded")
        ELSE IF pool < tokensPerRequest
            THEN View(FALSE, FALSE, "Insufficient faucet balance")
        ELSE IF paused THEN View(FALSE, FALSE, "Faucet is paused")
        ELSE View(FALSE, TRUE, "")

getFaucetStats ==
    [balance |-> pool, requests |-> totalRequests,
     distributed |-> totalTokensDistributed, perRequest |-> tokensPerRequest]

(***************************************************************************)
(* Owner functions and deposit.  Each function has the error it exits with *)
(* ("ok" for none), the state and event its transaction leaves behind, and *)
(* its action.  A reverting call leaves the state as it was and logs       *)
(* nothing: it is a stuttering step, and the action is the call that does  *)
(* not revert.                                                             *)
(***************************************************************************)
\* the contract storage and the token balances
Snapshot ==
    [tokensPerRequest |-> tokensPerRequest, cooldownTime |-> cooldownTime,
     maxTokensPerDay |-> maxTokensPerDay, minTokenBalance |-> minTokenBalance,
     nextRequestTime |-> nextRequestTime, dailyRequested |-> dailyRequested,
     lastRequestDay |-> lastRequestDay, totalRequests |-> totalRequests,
     totalTokensDistributed |-> totalTokensDistributed, paused |-> paused,
     pool |-> pool, bal |-> bal]

Post(st, event) == [st |-> st, event |-> event]

Commit(post) ==
    /\ tokensPerRequest' = post.st.tokensPerRequest
    /\ cooldownTime' = post.st.cooldownTime
    /\ maxTokensPerDay' = post.st.maxTokensPerDay
    /\ minTokenBalance' = post.st.minTokenBalance
    /\ nextRequestTime' = post.st.nextRequestTime
    /\ dailyRequested' = post.st.dailyRequested
    /\ lastRequestDay' = post.st.lastRequestDay
    /\ totalRequests' = post.st.totalRequests
    /\ totalTokensDistributed' = post.st.totalTokensDistributed
    /\ paused' = post.st.paused
    /\ pool' = post.st.pool
    /\ bal' = post.st.bal

updateFaucetConfigError(caller, t) ==
    IF caller # Owner THEN "NotOwner"
    ELSE IF t = 0 THEN "InvalidAmount"
    ELSE "ok"

\* variant: minTokenBalance is left as the constructor set it
ConfigWritten_staleMinBalance(t, c, m) ==
    [Snapshot EXCEPT !.tokensPerRequest = t, !.cooldownTime = c,
                     !.maxTokensPerDay = m]
ConfigWritten(t, c, m) ==
    [Snapshot EXCEPT !.tokensPerRequest = t, !.cooldownTime = c,
                     !.maxTokensPerDay = m, !.minTokenBalance = t]

\* variant: the update also clears the cooldowns set under the old values
updateFaucetConfigPost_retroactive(caller, t, c, m) ==
    IF updateFaucetConfigError(caller, t) # "ok" THEN Post(Snapshot, NoEvent)
    ELSE Post([ConfigWritten(t, c, m) EXCEPT
                   !.nextRequestTime = [a \in Addresses |-> 0]],
              <<"FaucetConfigUpdated", t, c, m>>)
updateFaucetConfigPost(caller, t, c, m) ==
    IF updateFaucetConfigError(caller, t) # "ok" THEN Post(Snapshot, NoEvent)
    ELSE Post(ConfigWritten(t, c, m), <<"FaucetConfigUpdated", t, c, m>>)

updateFaucetConfig(caller, t, c, m) ==
    /\ updateFaucetConfigError(caller, t) = "ok"
    /\ Commit(updateFaucetConfigPost(caller, t, c, m))
    /\ UNCHANGED <<chain, hist, call, client>>

\* the amount withdrawTokens transfers: 0 asks for the whole balance
\* variant: 0 is transferred as 0
WithdrawAmount_asGiven(amount) == amount
WithdrawAmount(amount) == IF amount = 0 THEN pool ELSE amount

\* variant: withdrawTokens carries whenNotPaused
withdrawTokensError_whenNotPaused(caller, amount, outcome) ==
    LET answer == TokenAnswer(pool, WithdrawAmount(amount), outcome) IN
    IF caller # Owner THEN "NotOwner"
    ELSE IF paused THEN "Paused"
    ELSE IF WithdrawAmount(amount) > pool THEN "InsufficientFaucetBalance"
    ELSE IF answer = "revert" THEN "TokenReverted"
    ELSE IF answer = "false" THEN "TransferFailed"
    ELSE "ok"
withdrawTokensError(caller, amount, outcome) ==
    LET answer == TokenAnswer(pool, WithdrawAmount(amount), outcome) IN
    IF caller # Owner THEN "NotOwner"
    ELSE IF WithdrawAmount(amount) > pool THEN "InsufficientFaucetBalance"
    ELSE IF answer = "revert" THEN "TokenReverted"
    ELSE IF answer = "false" THEN "TransferFailed"
    ELSE "ok"

\* variant: a withdrawal is counted as distributed
withdrawTokensPost_countedAsDistributed(caller, amount, outcome) ==
    IF withdrawTokensError(caller, amount, outcome) # "ok"
        THEN Post(Snapshot, NoEvent)
    ELSE Post([Snapshot EXCEPT !.pool = @ - WithdrawAmount(amount),
                               !.bal[Owner] = @ + WithdrawAmount(amount),
                               !.totalTokensDistributed =
                                   @ + WithdrawAmount(amount)],
              <<"TokensWithdrawn", Owner, WithdrawAmount(amount)>>)
withdrawTokensPost(caller, amount, outcome) ==
    IF withdrawTokensError(caller, amount, outcome) # "ok"
        THEN Post(Snapshot, NoEvent)
    ELSE Post([Snapshot EXCEPT !.pool = @ - WithdrawAmount(amount),
                               !.bal[Owner] = @ + WithdrawAmount(amount)],
              <<"TokensWithdrawn", Owner, WithdrawAmount(amount)>>)

withdrawTokens(caller, amount, outcome) ==
    /\ withdrawTokensError(caller, amount, outcome) = "ok"
    /\ Commit(withdrawTokensPost(caller, amount, outcome))
    /\ histFunded' = histFunded - (bal'[Owner] - bal[Owner])
    /\ UNCHANGED <<chain, claimHist, call, client>>

\* variant: depositTokens carries onlyOwner
depositTokensError_onlyOwner(caller, amount, outcome) ==
    LET answer == TokenAnswer(bal[caller], amount, outcome) IN
    IF caller # Owner THEN "NotOwner"
    ELSE IF amount = 0 THEN "InvalidAmount"
    ELSE IF answer = "revert" THEN "TokenReverted"
    ELSE IF answer = "false" THEN "TransferFailed"
    ELSE "ok"
depositTokensError(caller, amount, outcome) ==
    LET answer == TokenAnswer(bal[caller], amount, outcome) IN
    IF amount = 0 THEN "InvalidAmount"
    ELSE IF answer = "revert" THEN "TokenReverted"
    ELSE IF answer = "false" THEN "TransferFailed"
    ELSE "ok"

depositTokensPost(caller, amount, outcome) ==
    IF depositTokensError(caller, amount, outcome) # "ok"
        THEN Post(Snapshot, NoEvent)
    ELSE Post([Snapshot EXCEPT !.pool = @ + amount,
                               !.bal[caller] = @ - amount],
              <<"TokensDeposited", caller, amount>>)

depositTokens(caller, amount, outcome) ==
    /\ depositTokensError(caller, amount, outcome) = "ok"
    /\ Commit(depositTokensPost(caller, amount, outcome))
    /\ histFunded' = histFunded + (bal[caller] - bal'[caller])
    /\ UNCHANGED <<chain, claimHist, call, client>>

emergencyWithdrawError(caller, outcome) ==
    LET answer == TokenAnswer(pool, pool, outcome) IN
    IF caller # Owner THEN "NotOwner"
    ELSE IF pool > 0 /\ answer = "revert" THEN "TokenReverted"
    ELSE IF pool > 0 /\ answer = "false" THEN "TransferFailed"
    ELSE "ok"

\* variant: the transfer and the event are not conditional on the balance
emergencyWithdrawPost_unconditional(caller, outcome) ==
    IF emergencyWithdrawError(caller, outcome) # "ok" THEN Post(Snapshot, NoEvent)
    ELSE Post([Snapshot EXCEPT !.pool = 0, !.bal[Owner] = @ + pool],
              <<"TokensWithdrawn", Owner, pool>>)
emergencyWithdrawPost(caller, outcome) ==
    IF emergencyWithdrawError(caller, outcome) # "ok" THEN Post(Snapshot, NoEvent)
    ELSE IF pool > 0
        THEN Post([Snapshot EXCEPT !.pool = 0, !.bal[Owner] = @ + pool],
                  <<"TokensWithdrawn", Owner, pool>>)
    ELSE Post(Snapshot, NoEvent)

emergencyWithdraw(caller, outcome) ==
    /\ emergencyWithdrawError(caller, outcome) = "ok"
    /\ Commit(emergencyWithdrawPost(caller, outcome))
    /\ histFunded' = histFunded - (bal'[Owner] - bal[Owner])
    /\ UNCHANGED <<chain, claimHist, call, client>>

pauseError(caller) ==
    IF caller # Owner THEN "NotOwner"
    ELSE IF paused THEN "Paused"
    ELSE "ok"

\* variant: pausing also clears every cooldown
pausePost_clearingCooldowns(caller) ==
    IF pauseError(caller) # "ok" THEN Post(Snapshot, NoEvent)
    ELSE Post([Snapshot EXCEPT !.paused = TRUE,
                               !.nextRequestTime = [a \in Addresses |-> 0]],
              <<"Paused", caller>>)
pausePost(caller) ==
    IF pauseError(caller) # "ok" THEN Post(Snapshot, NoEvent)
    ELSE Post([Snapshot EXCEPT !.paused = TRUE], <<"Paused", caller>>)

pause(caller) ==
    /\ pauseError(caller) = "ok"
    /\ Commit(pausePost(caller))
    /\ UNCHANGED <<chain, hist, call, client>>

unpauseError(caller) ==
    IF caller # Owner THEN "NotOwner"
    ELSE IF ~paused THEN "NotPaused"
    ELSE "ok"

\* variant: unpausing restarts every cooldown
unpausePost_restartingCooldowns(caller) ==
    IF unpauseError(caller) # "ok" THEN Post(Snapshot, NoEvent)
    ELSE Post([Snapshot EXCEPT !.paused = FALSE,
                               !.nextRequestTime = [a \in Addresses |-> 0]],
              <<"Unpaused", caller>>)
unpausePost(caller) ==
    IF unpauseError(caller) # "ok" THEN Post(Snapshot, NoEvent)
    ELSE Post([Snapshot EXCEPT !.paused = FALSE], <<"Unpaused", caller>>)

unpause(caller) ==
    /\ unpauseError(caller) = "ok"
    /\ Commit(unpausePost(caller))
    /\ UNCHANGED <<chain, hist, call, client>>

\* variant: resetUserCooldown is open to every caller
resetUserCooldownError_anyCaller(caller) == "ok"
resetUserCooldownError(caller) == IF caller # Owner THEN "NotOwner" ELSE "ok"

\* variant: the whole ledger entry of the user is cleared
CooldownReset_wholeEntry(user) ==
    [Snapshot EXCEPT !.nextRequestTime[user] = 0, !.dailyRequested[user] = 0,
                     !.lastRequestDay[user] = 0]
\* variant: the cooldown of every address is cleared
CooldownReset_allUsers(user) ==
    [Snapshot EXCEPT !.nextRequestTime = [a \in Addresses |-> 0]]
CooldownReset(user) == [Snapshot EXCEPT !.nextRequestTime[user] = 0]

resetUserCooldownPost(caller, user) ==
    IF resetUserCooldownError(caller) # "ok" THEN Post(Snapshot, NoEvent)
    ELSE Post(CooldownReset(user), NoEvent)

resetUserCooldown(caller, user) ==
    /\ resetUserCooldownError(caller) = "ok"
    /\ Commit(resetUserCooldownPost(caller, user))
    /\ histResetSince' = [histResetSince EXCEPT ![user] =
                              histLastClaimTime[user] # None]
    /\ UNCHANGED <<chain, call, client, histLastClaimTime, histLastCooldown, histGap,
                   histDayPaid, histCapAtClaim, histSumPaid, histEvents,
                   histClaims, histFunded>>

(***************************************************************************)
(* The chain: a later block carries a later timestamp.                     *)
(***************************************************************************)
\* variant: the block that opens a new day sweeps the daily counters
Advance_sweeping(d) ==
    /\ blockNumber < MaxBlocks
    /\ blockNumber' = blockNumber + 1
    /\ now' = now + d
    /\ dailyRequested' = [a \in Addresses |->
           IF lastRequestDay[a] < (now + d) \div DAY THEN 0
           ELSE dailyRequested[a]]
    /\ UNCHANGED <<config, nextRequestTime, lastRequestDay, stats, paused,
                   token, hist, call, client>>
Advance(d) ==
    /\ blockNumber < MaxBlocks
    /\ blockNumber' = blockNumber + 1
    /\ now' = now + d
    /\ UNCHANGED <<storage, token, hist, call, client>>

Next ==
    \/ \E a \in Addresses, o \in TokenOutcomes : requestTokens(a, o)
    \/ \E a \in Addresses, cfg \in ConfigInputs :
          updateFaucetConfig(a, cfg[1], cfg[2], cfg[3])
    \/ \E a \in Addresses, n \in WithdrawInputs, o \in TokenOutcomes :
          withdrawTokens(a, n, o)
    \/ \E a \in Addresses, n \in DepositInputs, o \in TokenOutcomes :
          depositTokens(a, n, o)
    \/ \E a \in Addresses, o \in TokenOutcomes : emergencyWithdraw(a, o)
    \/ \E a \in Addresses : pause(a)
    \/ \E a \in Addresses : unpause(a)
    \/ \E a, u \in Addresses : resetUserCooldown(a, u)
    \/ \E d \in TimeSteps : Advance(d)

Spec == Init /\ [][Next]_vars

(***************************************************************************)
(* A deployment of one request of 10 per day from a pool of 100, with the  *)
(* clock stopping 100 seconds after a block and 100 seconds before the day *)
(* is over.                                                                *)
(***************************************************************************)
ScenarioConfig ==
    [tokensPerRequest |-> 10, cooldownTime |-> DAY, maxTokensPerDay |-> 10,
     pool |-> 100]
ScenarioSteps == {100, DAY - 100}

\* the faucet of the scenario as deployed and funded
ScenarioDeployed ==
    /\ tokensPerRequest = ScenarioConfig.tokensPerRequest
    /\ cooldownTime = ScenarioConfig.cooldownTime
    /\ maxTokensPerDay = ScenarioConfig.maxTokensPerDay
    /\ minTokenBalance = tokensPerRequest
    /\ nextRequestTime = [a \in Addresses |-> 0]
    /\ dailyRequested = [a \in Addresses |-> 0]
    /\ lastRequestDay = [a \in Addresses |-> 0]
    /\ totalRequests = 0
    /\ totalTokensDistributed = 0
    /\ paused = FALSE
    /\ pool = ScenarioConfig.pool
    /\ bal = [a \in Addresses |-> 0]
    /\ now = 0
    /\ blockNumber = 0
    /\ histLastClaimTime = [a \in Addresses |-> None]
    /\ histLastCooldown = [a \in Addresses |-> 0]
    /\ histResetSince = [a \in Addresses |-> FALSE]
    /\ histGap = [a \in Addresses |-> NoGap]
    /\ histDayPaid = [a \in Addresses |-> 0]
    /\ histCapAtClaim = [a \in Addresses |-> 0]
    /\ histSumPaid = 0
    /\ histEvents = 0
    /\ histClaims = 0
    /\ histFunded = ScenarioConfig.pool
    /\ lock = FALSE
    /\ inflight = NoCall
    /\ histNested = 0
    /\ histExit = "none"

ScenarioInit ==
    /\ ScenarioDeployed
    /\ NoClient

ScenarioNext ==
    \/ \E a \in Addresses, o \in TokenOutcomes : requestTokens(a, o)
    \/ \E a \in Addresses : pause(a)
    \/ \E a \in Addresses : unpause(a)
    \/ \E d \in ScenarioSteps : Advance(d)

ScenarioSpec == ScenarioInit /\ [][ScenarioNext]_vars

(***************************************************************************)
(* requestTokens in steps: the call up to xfiToken.transfer, the calls the *)
(* token ledger makes back into the faucet from inside transfer, and the   *)
(* return of transfer.  The nonReentrant modifier takes the lock on entry  *)
(* and gives it back on exit; a revert undoes every write of the           *)
(* transaction, the lock and the writes of calls nested in it included.    *)
(***************************************************************************)
\* the lock after requestTokens has exited, normally or by a revert
\* variant: only the normal exit gives the lock back
LockAfter_heldOnFailure(ok) == ~ok
LockAfter(ok) == FALSE

\* the ledger and statistics as written when xfiToken.transfer is called:
\* the updates of lines 101-107 precede the call of line 110
\* variant: the updates are left for after the transfer
WrittenAtTransfer_rolloverOnly(user) == AfterRollover(user)
WrittenAtTransfer(user) == requestTokensRun(user, "ok").written

requestTokensEnter(user) ==
    LET run == [err |-> requestTokensRun(user, "ok").err,
                written |-> WrittenAtTransfer(user)] IN
    /\ inflight = NoCall
    /\ totalRequests < MaxRequests
    /\ histNested' = 0
    /\ UNCHANGED client
    /\ IF run.err = "ok"
        THEN /\ nextRequestTime' = run.written.nrt
             /\ dailyRequested' = run.written.dr
             /\ lastRequestDay' = run.written.lrd
             /\ totalRequests' = run.written.tr
             /\ totalTokensDistributed' = run.written.ttd
             /\ lock' = TRUE
             /\ inflight' = [user |-> user, before |-> Snapshot]
             /\ UNCHANGED <<config, paused, token, chain, hist, histExit>>
        ELSE /\ lock' = LockAfter(FALSE)
             /\ histExit' = run.err
             /\ UNCHANGED <<storage, token, chain, hist, inflight>>

\* the token ledger calls requestTokens for `user` from inside transfer
callbackRequestTokens(user, outcome) ==
    LET post == requestTokensPost(user, outcome) IN
    /\ inflight # NoCall
    /\ nextRequestTime' = post.nrt
    /\ dailyRequested' = post.dr
    /\ lastRequestDay' = post.lrd
    /\ totalRequests' = post.tr
    /\ totalTokensDistributed' = post.ttd
    /\ pool' = post.pool
    /\ bal' = post.bal
    /\ histNested' = histNested + (IF post.paid > 0 THEN 1 ELSE 0)
    /\ UNCHANGED <<config, paused, chain, hist, lock, inflight, histExit,
                   client>>

requestTokensExit(outcome) ==
    LET user == inflight.user
        err == TransferError(TokenAnswer(pool, TransferAmount, outcome))
    IN  /\ inflight # NoCall
        /\ IF err = "ok"
            THEN /\ pool' = pool - TransferAmount
                 /\ bal' = [bal EXCEPT ![user] = @ + TransferAmount]
                 /\ RecordClaim(user, TransferAmount)
                 /\ histEvents' = histEvents + 1
                 /\ UNCHANGED <<storage, chain, histFunded>>
            ELSE /\ Commit(Post(Reverted(inflight.before, Snapshot), NoEvent))
                 /\ UNCHANGED <<chain, hist>>
        /\ lock' = LockAfter(err = "ok")
        /\ inflight' = NoCall
        /\ histExit' = err
        /\ UNCHANGED <<histNested, client>>

\* no transaction starts while another is executing
Idle == inflight = NoCall

\* the faucet with its claimants, its funding, its configuration, the pause
\* and the clock

ReentrantNext ==
    \/ \E a \in Addresses : requestTokensEnter(a)
    \/ \E a \in Addresses, o \in TokenOutcomes : callbackRequestTokens(a, o)
    \/ \E o \in TokenOutcomes : requestTokensExit(o)
    \/ \E a \in Addresses, cfg \in ConfigInputs :
          Idle /\ updateFaucetConfig(a, cfg[1], cfg[2], cfg[3])
    \/ \E a \in Addresses, n \in DepositInputs :
          Idle /\ depositTokens(a, n, "ok")
    \/ \E a \in Addresses : Idle /\ pause(a)
    \/ \E a \in Addresses : Idle /\ unpause(a)
    \/ \E d \in TimeSteps : Idle /\ Advance(d)

ReentrantSpec == Init /\ [][ReentrantNext]_vars

(***************************************************************************)
(* Deployment with the constructor's arguments chosen by the deployer: a   *)
(* construction that reverts leaves no contract, so the initial states are *)
(* those of the constructions that succeed.                                *)
(***************************************************************************)
ZeroAddress == "0x0"
XfiToken == "xfiToken"
\* constructor arguments <<_tokensPerRequest, _cooldownTime, _maxTokensPerDay>>
ConstructorInputs ==
    {<<0, 0, 0>>, <<0, DAY, MaxAmount>>, <<1, UintMax, 1>>,
     <<MaxAmount, DAY, MaxAmount>>}

\* "if (_xfiToken == address(0)) revert InvalidAddress()", the only check
\* variant: the constructor validates the amount as updateFaucetConfig does
constructorError_validatingAmount(xfiToken, t, c, m) ==
    IF xfiToken = ZeroAddress THEN "InvalidAddress"
    ELSE IF t = 0 THEN "InvalidAmount"
    ELSE "ok"
constructorError(xfiToken, t, c, m) ==
    IF xfiToken = ZeroAddress THEN "InvalidAddress" ELSE "ok"

\* the configuration the constructor stores
\* variant: minTokenBalance is left at its default
constructorPost_noFloor(xfiToken, t, c, m) ==
    [tokensPerRequest |-> t, cooldownTime |-> c, maxTokensPerDay |-> m,
     minTokenBalance |-> 0]
constructorPost(xfiToken, t, c, m) ==
    [tokensPerRequest |-> t, cooldownTime |-> c, maxTokensPerDay |-> m,
     minTokenBalance |-> t]

ConstructionInit ==
    /\ \E xfiToken \in {ZeroAddress, XfiToken}, cfg \in ConstructorInputs :
          /\ constructorError(xfiToken, cfg[1], cfg[2], cfg[3]) = "ok"
          /\ LET post == constructorPost(xfiToken, cfg[1], cfg[2], cfg[3])
             IN  /\ tokensPerRequest = post.tokensPerRequest
                 /\ cooldownTime = post.cooldownTime
                 /\ maxTokensPerDay = post.maxTokensPerDay
                 /\ minTokenBalance = post.minTokenBalance
    /\ nextRequestTime = [a \in Addresses |-> 0]
    /\ dailyRequested = [a \in Addresses |-> 0]
    /\ lastRequestDay = [a \in Addresses |-> 0]
    /\ totalRequests = 0
    /\ totalTokensDistributed = 0
    /\ paused = FALSE
    /\ pool = 0
    /\ bal = [a \in Addresses |-> IF a = Owner THEN TokenSupply ELSE 0]
    /\ now = 0
    /\ blockNumber = 0
    /\ histLastClaimTime = [a \in Addresses |-> None]
    /\ histLastCooldown = [a \in Addresses |-> 0]
    /\ histResetSince = [a \in Addresses |-> FALSE]
    /\ histGap = [a \in Addresses |-> NoGap]
    /\ histDayPaid = [a \in Addresses |-> 0]
    /\ histCapAtClaim = [a \in Addresses |-> 0]
    /\ histSumPaid = 0
    /\ histEvents = 0
    /\ histClaims = 0
    /\ histFunded = 0
    /\ lock = FALSE
    /\ inflight = NoCall
    /\ histNested = 0
    /\ histExit = "none"
    /\ NoClient

ConstructionNext ==
    \/ \E a \in Addresses, o \in TokenOutcomes : requestTokens(a, o)
    \/ \E a \in Addresses, cfg \in ConfigInputs :
          updateFaucetConfig(a, cfg[1], cfg[2], cfg[3])
    \/ \E a \in Addresses, n \in DepositInputs : depositTokens(a, n, "ok")
    \/ \E d \in TimeSteps : Advance(d)

ConstructionSpec == ConstructionInit /\ [][ConstructionNext]_vars

(***************************************************************************)
(* The deployment of the scenario with every operation of the contract     *)
(* open to its callers, the owner's among them.                            *)
(***************************************************************************)
DeployedConfig ==
    <<ScenarioConfig.tokensPerRequest, ScenarioConfig.cooldownTime,
      ScenarioConfig.maxTokensPerDay>>

\* configurations the owner sets: the deployed one, and one without
\* cooldown and with twice the daily cap
DeployedConfigInputs ==
    {DeployedConfig,
     <<ScenarioConfig.tokensPerRequest, 0, 2 * ScenarioConfig.maxTokensPerDay>>}
\* amounts withdrawn (0 asks for everything) and deposited (a whole pool)
DeployedWithdrawInputs == {0}
DeployedDepositInputs == {ScenarioConfig.pool}

DeployedNext ==
    \/ \E a \in Addresses, o \in TokenOutcomes : requestTokens(a, o)
    \/ \E a \in Addresses, cfg \in DeployedConfigInputs :
          updateFaucetConfig(a, cfg[1], cfg[2], cfg[3])
    \/ \E a \in Addresses, n \in DeployedWithdrawInputs :
          withdrawTokens(a, n, "ok")
    \/ \E a \in Addresses, n \in DeployedDepositInputs :
          depositTokens(a, n, "ok")
    \/ \E a \in Addresses : emergencyWithdraw(a, "ok")
    \/ \E a \in Addresses : pause(a)
    \/ \E a \in Addresses : unpause(a)
    \/ \E a, u \in Addresses : resetUserCooldown(a, u)
    \/ \E d \in ScenarioSteps : Advance(d)

DeployedSpec == ScenarioInit /\ [][DeployedNext]_vars

(***************************************************************************)
(* The faucet of the scenario while time advances: the chain keeps         *)
(* producing blocks a day apart, every transaction is followed by a later  *)
(* block, and the owner may set a cooldown of type(uint256).max, pause,    *)
(* and empty the pool.                                                     *)
(***************************************************************************)
LiveSteps == {DAY}
LiveConfigInputs ==
    DeployedConfigInputs \cup
        {<<ScenarioConfig.tokensPerRequest, UintMax, ScenarioConfig.maxTokensPerDay>>}

\* a transaction is included in a block that is not the last one observed
Included == blockNumber < MaxBlocks

LiveNext ==
    \/ \E a \in Addresses, o \in TokenOutcomes : Included /\ requestTokens(a, o)
    \/ \E a \in Addresses, cfg \in LiveConfigInputs :
          Included /\ updateFaucetConfig(a, cfg[1], cfg[2], cfg[3])
    \/ \E a \in Addresses : Included /\ emergencyWithdraw(a, "ok")
    \/ \E a \in Addresses : Included /\ pause(a)
    \/ \E a \in Addresses : Included /\ unpause(a)
    \/ \E d \in LiveSteps : Advance(d)

\* block production never stops
LiveSpec ==
    /\ ScenarioInit
    /\ [][LiveNext]_vars
    /\ WF_vars(\E d \in LiveSteps : Advance(d))

(***************************************************************************)
(* The web client (component TokenFaucet) of one wallet, in its two        *)
(* versions, in front of the faucet of the scenario.  The wallet is        *)
(* connected; the component's state starts from its useState defaults.     *)
(* The client reads the faucet when its effect runs and after a confirmed  *)
(* claim; a read that fails is caught and leaves the state as it was.      *)
(***************************************************************************)
Wallet == "alice"
ClientVersions == {"page.tsx", "part_000"}
RpcOutcomes == {"ok", "error"}

\* the countdown shown on the button, decremented once a second
timeUntilNext == IF timerEnd > now THEN timerEnd - now ELSE 0

\* "disabled={...}" of the claim button and the guards of its handler, the
\* isLoading flag left aside
ClaimEnabled ==
    IF clientVersion = "part_000" THEN userCanRequest ELSE timeUntilNext = 0

\* what checkUserCooldown reads: part_000 asks canUserRequest and
\* getRemainingCooldown; page.tsx asks getNextRequestTime and subtracts its
\* own clock, "Math.max(0, timeLeft)"
ClientReads ==
    IF clientVersion = "part_000"
        THEN [canRequest |-> canUserRequest(Wallet).canRequest,
              remaining |-> getRemainingCooldown(Wallet)]
        ELSE LET timeLeft == getNextRequestTime(Wallet) - now
             IN  [remaining |-> IF timeLeft > 0 THEN timeLeft ELSE 0]

\* the state checkUserCooldown sets from what it has read at time t
Polled(reads, t) ==
    [userCanRequest |-> IF clientVersion # "part_000" THEN userCanRequest
                        ELSE reads.canRequest,
     timerEnd |-> IF reads.remaining > 0 THEN t + reads.remaining ELSE 0,
     histPolled |-> IF clientVersion # "part_000" THEN histPolled
                    ELSE IF reads.canRequest THEN "true" ELSE "false"]

ViewsPolled ==
    IF clientVersion = "part_000"
        THEN {"canUserRequest", "getRemainingCooldown"}
        ELSE {"getNextRequestTime"}

\* the effect that runs checkUserCooldown once provider, wallet and network
\* are set
checkUserCooldown(rpc) ==
    /\ clientVersion \in ClientVersions
    /\ ~isLoading
    /\ rpc = "ok"
    /\ LET polled == Polled(ClientReads, now)
       IN  /\ userCanRequest' = polled.userCanRequest
           /\ timerEnd' = polled.timerEnd
           /\ histPolled' = polled.histPolled
    /\ UNCHANGED <<storage, token, chain, hist, call, clientVersion, isLoading,
                   histPolledAtSubmit, histRepolled>>

\* the click on the claim button: estimateGas simulates the call and throws
\* if it would revert; otherwise the transaction is sent
TokenFaucet_requestTokens ==
    /\ clientVersion \in ClientVersions
    /\ ~isLoading
    /\ ClaimEnabled
    /\ totalRequests < MaxRequests
    /\ requestTokensRun(Wallet, "ok").err = "ok"
    /\ isLoading' = TRUE
    /\ histPolledAtSubmit' = histPolled
    /\ UNCHANGED <<storage, token, chain, hist, call, clientVersion,
                   userCanRequest, timerEnd, histPolled, histRepolled>>

\* the transaction is mined and tx.wait() returns: after a successful claim
\* the client calls loadContractData and checkUserCooldown again
TokenFaucet_confirmed(outcome, rpc) ==
    LET ok == requestTokensRun(Wallet, outcome).err = "ok" IN
    /\ isLoading
    /\ requestTokensTx(Wallet, outcome)
    /\ isLoading' = FALSE
    /\ UNCHANGED <<clientVersion, histPolledAtSubmit>>
    /\ IF ok
        THEN /\ histRepolled' = ViewsPolled
             /\ IF rpc = "ok"
                 THEN LET polled == Polled(ClientReads', now)
                      IN  /\ userCanRequest' = polled.userCanRequest
                          /\ timerEnd' = polled.timerEnd
                          /\ histPolled' = polled.histPolled
                 ELSE UNCHANGED <<userCanRequest, timerEnd, histPolled>>
        ELSE UNCHANGED <<userCanRequest, timerEnd, histPolled, histRepolled>>

ClientInit ==
    /\ ScenarioDeployed
    /\ clientVersion \in ClientVersions
    /\ userCanRequest = TRUE
    /\ isLoading = FALSE
    /\ timerEnd = 0
    /\ histPolled = "none"
    /\ histPolledAtSubmit = "none"
    /\ histRepolled = {}

ClientNext ==
    \/ \E rpc \in RpcOutcomes : checkUserCooldown(rpc)
    \/ TokenFaucet_requestTokens
    \/ \E o \in TokenOutcomes, rpc \in RpcOutcomes : TokenFaucet_confirmed(o, rpc)
    \/ \E a \in Addresses : pause(a)
    \/ \E a \in Addresses : unpause(a)
    \/ \E d \in ScenarioSteps : Advance(d)

ClientSpec == ClientInit /\ [][ClientNext]_vars

(***************************************************************************)
(* Properties                                                              *)
(***************************************************************************)
PreconditionErrors ==
    {"Paused", "CooldownActive", "DailyLimitExceeded", "InsufficientFaucetBalance"}

\* requestTokens by a would succeed, the token ledger's transfer succeeding
WouldSucceed(a) == requestTokensRun(a, "ok").err = "ok"

\* a claim by a has just succeeded in this state
JustClaimed(a) == histLastClaimTime[a] = now

\* C1: in every reachable state, for every address, canUserRequest returns
\* canRequest = true exactly when requestTokens by that address would
\* succeed (the transfer itself succeeding).
C1_CanUserRequestMatchesRequestTokens ==
    \A a \in Addresses : canUserRequest(a).canRequest <=> WouldSucceed(a)

\* C2 as stated: a requestTokens call made before nextRequestTime[caller]
\* never succeeds and fails with CooldownActive.
C2_BeforeNextRequestTimeIsCooldownActive ==
    \A a \in Addresses, o \in TokenOutcomes :
        now < nextRequestTime[a] => requestTokensRun(a, o).err = "CooldownActive"

\* C2 amended: a requestTokens call made before nextRequestTime[caller]
\* never succeeds; it fails with CooldownActive carrying the time left,
\* unless the faucet is paused, and then it fails with Paused.
C2_BeforeNextRequestTimeNeverSucceeds ==
    \A a \in Addresses, o \in TokenOutcomes :
        now < nextRequestTime[a] =>
            LET run == requestTokensRun(a, o) IN
            IF paused THEN run.err = "Paused"
            ELSE /\ run.err = "CooldownActive"
                 /\ run.arg = nextRequestTime[a] - now

C2_Witness ==
    \E a \in Addresses :
        /\ histLastClaimTime[a] # None
        /\ now < nextRequestTime[a]
        /\ ~paused
        /\ nextRequestTime[a] - now = DAY \div 2

\* C3: two successive successful claims of one address at times t1 < t2,
\* with no resetUserCooldown of that address between them, are at least the
\* cooldownTime configured at t1 apart.
C3_SuccessiveClaimsCooldownApart ==
    \A a \in Addresses :
        (histGap[a] # NoGap /\ histGap[a][1] > 0) => histGap[a][1] >= histGap[a][2]

C3_Witness ==
    \E a \in Addresses :
        /\ histGap[a] = <<DAY, DAY>>
        /\ JustClaimed(a)
        /\ cooldownTime = 0

\* C4 as stated: the sum disbursed to an address during the current day
\* bucket never exceeds maxTokensPerDay.
C4_DailySumWithinCurrentCap ==
    \A a \in Addresses :
        (histLastClaimTime[a] # None /\ histLastClaimTime[a] \div DAY = now \div DAY)
            => histDayPaid[a] <= maxTokensPerDay

\* C4 amended: the sum disbursed to an address during one day bucket never
\* exceeds the maxTokensPerDay in force at that address's latest successful
\* claim of the bucket.
C4_DailySumWithinCapAtClaim ==
    \A a \in Addresses : histDayPaid[a] <= histCapAtClaim[a]

C4_Witness ==
    \E a \in Addresses :
        /\ histGap[a] # NoGap
        /\ histGap[a][1] = 0
        /\ histDayPaid[a] = MaxAmount
        /\ histCapAtClaim[a] = MaxAmount
        /\ maxTokensPerDay < histDayPaid[a]

\* C5 as stated: for every address whose lastRequestDay is the current day
\* index, the stored dailyRequested is at most the current maxTokensPerDay.
C5_DailyRequestedWithinCurrentCap ==
    \A a \in Addresses :
        lastRequestDay[a] = CurrentDay => dailyRequested[a] <= maxTokensPerDay

\* C5 amended: for every address whose lastRequestDay is the current day
\* index, the stored dailyRequested is at most the maxTokensPerDay that was in
\* force at the address's last successful claim (0 before its first claim).
C5_DailyRequestedWithinCapAtClaim ==
    \A a \in Addresses :
        lastRequestDay[a] = CurrentDay => dailyRequested[a] <= histCapAtClaim[a]

C5_Witness ==
    \E a \in Addresses :
        /\ lastRequestDay[a] = CurrentDay
        /\ CurrentDay > 0
        /\ dailyRequested[a] > maxTokensPerDay

\* C6: a successful claim moves exactly tokensPerRequest from the pool to the
\* caller, and only when the pool holds at least that much; the pool balance
\* is never negative, whatever claims and withdrawals are made.
C6_ClaimDisbursesExactlyPerRequest ==
    /\ pool >= 0
    /\ \A a \in Addresses :
          WouldSucceed(a) =>
              LET post == requestTokensPost(a, "ok") IN
              /\ pool >= tokensPerRequest
              /\ post.pool = pool - tokensPerRequest
              /\ post.bal = [bal EXCEPT ![a] = @ + tokensPerRequest]
              /\ post.pool >= 0

C6_Witness ==
    \E a \in Addresses :
        /\ JustClaimed(a)
        /\ pool = 0
        /\ bal[a] = 1
        /\ tokensPerRequest = 1
        /\ maxTokensPerDay = MaxAmount

\* C7: totalTokensDistributed, which getFaucetStats reports as distributed,
\* is the sum of the amounts of all successful claims so far, each at the
\* tokensPerRequest in force when it was made (histSumPaid grows by the amount
\* paid at each successful claim and by nothing else, so the two agree only
\* if no other operation touches the counter and it never decreases).
C7_DistributedIsSumOfClaims ==
    /\ totalTokensDistributed = histSumPaid
    /\ getFaucetStats.distributed = histSumPaid

C7_Witness ==
    /\ totalRequests = 2
    /\ getFaucetStats.distributed = MaxAmount + 1

\* C8: a requestTokens call that fails with Paused, CooldownActive,
\* DailyLimitExceeded or InsufficientFaucetBalance leaves the ledger entries,
\* the statistics, the configuration, the pause flag and the pool as they
\* were; the day-rollover write made before the daily-limit check is not kept.
C8_FailedPreconditionChangesNothing ==
    \A a \in Addresses, o \in TokenOutcomes :
        requestTokensRun(a, o).err \in PreconditionErrors =>
            LET post == requestTokensPost(a, o) IN
            /\ post.nrt = nextRequestTime
            /\ post.dr = dailyRequested
            /\ post.lrd = lastRequestDay
            /\ post.tr = totalRequests
            /\ post.ttd = totalTokensDistributed
            /\ post.pool = pool
            /\ post.bal = bal

C8_Witness ==
    \E a \in Addresses :
        /\ requestTokensRun(a, "ok").err = "DailyLimitExceeded"
        /\ IsNewDay(a)
        /\ dailyRequested[a] > 0

\* a requestTokens call by a reaches the transfer
ReachesTransfer(a) == WouldSucceed(a)

C10_FirstFailingCheckIsReported ==
    \A a \in Addresses, o \in TokenOutcomes :
        LET err == requestTokensRun(a, o).err
            used == getDailyUsage(a).requested
        IN  IF paused THEN err = "Paused"
            ELSE IF now < nextRequestTime[a] THEN err = "CooldownActive"
            ELSE IF used + tokensPerRequest > maxTokensPerDay
                THEN err = "DailyLimitExceeded"
            ELSE IF pool < tokensPerRequest THEN err = "InsufficientFaucetBalance"
            ELSE TRUE

\* a's latest successful claim was made at t with cooldown c, no
\* resetUserCooldown(a) has happened since, and the clock is before t + c
InCooldownOfLastClaim(a) ==
    /\ histLastClaimTime[a] # None
    /\ ~histResetSince[a]
    /\ now < histLastClaimTime[a] + histLastCooldown[a]

\* C13: from a successful claim by an address at time t until t plus the
\* cooldownTime in force at that claim (exclusive), in every state reached
\* without resetUserCooldown of that address, canUserRequest returns
\* (false, "Cooldown active") and no other reason, whatever the pool balance,
\* the pause flag and the configuration have become.
C13_CooldownReportedDuringInterval ==
    \A a \in Addresses :
        InCooldownOfLastClaim(a) =>
            canUserRequest(a) = View(FALSE, FALSE, "Cooldown active")

C13_Witness ==
    \E a \in Addresses :
        /\ InCooldownOfLastClaim(a)
        /\ now = histLastClaimTime[a] + DAY \div 2
        /\ paused
        /\ pool < tokensPerRequest
        /\ cooldownTime # histLastCooldown[a]

\* a's latest successful claim was the first of its day bucket, and a had
\* claimed in an earlier day bucket before it
FirstClaimOfLaterDay(a) ==
    /\ histLastClaimTime[a] # None
    /\ histGap[a] # NoGap
    /\ (histLastClaimTime[a] - histGap[a][1]) \div DAY
          < histLastClaimTime[a] \div DAY

\* C14: once the clock is in a day index greater than lastRequestDay[A],
\* getDailyUsage(A).requested is 0 and A's next claim is checked against a
\* daily usage of 0 (it fails the daily limit exactly when tokensPerRequest
\* alone exceeds maxTokensPerDay), whatever A claimed in earlier days; when
\* that claim succeeds it stores dailyRequested[A] = tokensPerRequest and
\* lastRequestDay[A] = the current day index, the amount paid to A in the new
\* day and not a sum carried over from the earlier one.
C14_NewDayStartsFromZero ==
    \A a \in Addresses :
        /\ lastRequestDay[a] < CurrentDay =>
              LET run == requestTokensRun(a, "ok")
                  post == requestTokensPost(a, "ok")
              IN  /\ getDailyUsage(a).requested = 0
                  /\ (~paused /\ ~CooldownCheckFails(a)) =>
                        /\ run.err = "DailyLimitExceeded"
                              <=> tokensPerRequest > maxTokensPerDay
                        /\ run.err = "DailyLimitExceeded"
                              => run.arg = maxTokensPerDay
                  /\ run.err = "ok" =>
                        /\ post.dr[a] = tokensPerRequest
                        /\ post.lrd[a] = CurrentDay
        /\ FirstClaimOfLaterDay(a) =>
              /\ dailyRequested[a] = histDayPaid[a]
              /\ lastRequestDay[a] = histLastClaimTime[a] \div DAY

C14_Witness ==
    \E a \in Addresses :
        /\ FirstClaimOfLaterDay(a)
        /\ JustClaimed(a)
        /\ CurrentDay = 1
        /\ bal[a] = 2
        /\ dailyRequested[a] = 1

\* C17: while the faucet is paused every requestTokens call fails with Paused
\* and pays nothing, whatever the caller's cooldown, daily usage and the pool
\* are; a pause or unpause transaction, successful or not, leaves every
\* ledger entry, config value, statistic and token balance as it was (so a
\* claim after unpause is evaluated on exactly the state it would have been
\* evaluated on without the pause), pause sets the flag and unpause clears it.
C17_PauseBlocksClaimsAndChangesOnlyTheFlag ==
    /\ paused =>
          \A a \in Addresses, o \in TokenOutcomes :
              /\ requestTokensRun(a, o).err = "Paused"
              /\ requestTokensPost(a, o).paid = 0
    /\ \A c \in Addresses :
          /\ [pausePost(c).st EXCEPT !.paused = paused] = Snapshot
          /\ [unpausePost(c).st EXCEPT !.paused = paused] = Snapshot
    /\ ~paused => pausePost(Owner).st.paused
    /\ paused => ~unpausePost(Owner).st.paused

C17_Witness ==
    /\ paused
    /\ \E a, b \in Addresses :
          /\ canUserRequest(a).reason = "Faucet is paused"
          /\ CooldownCheckFails(b)
          /\ dailyRequested[b] > 0

\* the outcome of a call, and for a call that does not revert what its
\* transaction leaves behind, the pause flag left out
Outcome(err, post) ==
    IF err = "ok" THEN <<err, [post.st EXCEPT !.paused = FALSE], post.event>>
    ELSE <<err>>

\* canUserRequest's answer with the report of the pause taken out
CanUserRequestUnpaused(a) ==
    LET v == canUserRequest(a) IN
    IF v = View(FALSE, FALSE, "Faucet is paused") THEN View(FALSE, TRUE, "") ELSE v

\* the outcome and effect of every call of depositTokens, withdrawTokens,
\* emergencyWithdraw, updateFaucetConfig and resetUserCooldown, and the
\* answer of every view, in the current state
OutcomesBesidesRequest ==
    [deposit |-> [c \in Addresses, n \in DepositInputs, o \in TokenOutcomes |->
                    Outcome(depositTokensError(c, n, o),
                            depositTokensPost(c, n, o))],
     withdraw |-> [c \in Addresses, n \in WithdrawInputs, o \in TokenOutcomes |->
                    Outcome(withdrawTokensError(c, n, o),
                            withdrawTokensPost(c, n, o))],
     emergency |-> [c \in Addresses, o \in TokenOutcomes |->
                    Outcome(emergencyWithdrawError(c, o),
                            emergencyWithdrawPost(c, o))],
     update |-> [c \in Addresses, cfg \in ConfigInputs |->
                    Outcome(updateFaucetConfigError(c, cfg[1]),
                            updateFaucetConfigPost(c, cfg[1], cfg[2], cfg[3]))],
     reset |-> [c \in Addresses, u \in Addresses |->
                    Outcome(resetUserCooldownError(c),
                            resetUserCooldownPost(c, u))],
     views |-> [a \in Addresses |->
                    <<getNextRequestTime(a), getRemainingCooldown(a),
                      getDailyUsage(a), CanUserRequestUnpaused(a)>>],
     faucetStats |-> getFaucetStats]

\* C18: the pause flag gates requestTokens only: across every step that
\* sets the flag (and, by C17, changes nothing else), every call of
\* depositTokens, withdrawTokens, emergencyWithdraw, updateFaucetConfig and
\* resetUserCooldown has the same outcome and effect, and every view the
\* same answer, before and after, except that canUserRequest answers
\* (false, "Faucet is paused") where it would answer (true, "").
C18_PauseGatesRequestTokensOnly ==
    [][(~paused /\ paused') =>
          /\ OutcomesBesidesRequest' = OutcomesBesidesRequest
          /\ \A a \in Addresses :
                canUserRequest(a).canRequest =>
                    canUserRequest(a)' = View(FALSE, FALSE, "Faucet is paused")
      ]_vars

C18_Witness ==
    /\ paused
    /\ withdrawTokensError(Owner, 1, "ok") = "ok"
    /\ depositTokensError(Owner, 1, "ok") = "ok"
    /\ emergencyWithdrawPost(Owner, "ok").event = <<"TokensWithdrawn", Owner, 1>>
    /\ \E a \in Addresses : canUserRequest(a).reason = "Faucet is paused"

\* C19: resetUserCooldown(A) by the owner sets nextRequestTime[A] to 0 and
\* changes nothing else; a claim by A after the reset (the faucet not being
\* paused) still fails with DailyLimitExceeded when A's usage in the current
\* day bucket plus tokensPerRequest exceeds maxTokensPerDay.
C19_ResetClearsCooldownOnly ==
    /\ \A u \in Addresses :
          resetUserCooldownPost(Owner, u) =
              Post([Snapshot EXCEPT !.nextRequestTime[u] = 0], NoEvent)
    /\ \A a \in Addresses, o \in TokenOutcomes :
          (/\ histResetSince[a]
           /\ nextRequestTime[a] = 0
           /\ ~paused
           /\ getDailyUsage(a).requested + tokensPerRequest > maxTokensPerDay)
              => requestTokensRun(a, o).err = "DailyLimitExceeded"

\* C20: updateFaucetConfig(t, c, m) by the owner fails with InvalidAmount and
\* changes nothing when t = 0; otherwise it sets tokensPerRequest = t,
\* cooldownTime = c, maxTokensPerDay = m and minTokenBalance = t, emits
\* FaucetConfigUpdated(t, c, m) and leaves every address's nextRequestTime,
\* dailyRequested and lastRequestDay, the statistics, the pause flag and the
\* token balances unchanged.
C20_UpdateFaucetConfigEffect ==
    \A cfg \in ConfigInputs :
        LET t == cfg[1]
            c == cfg[2]
            m == cfg[3]
            post == updateFaucetConfigPost(Owner, t, c, m)
        IN  IF t = 0
            THEN /\ updateFaucetConfigError(Owner, t) = "InvalidAmount"
                 /\ post = Post(Snapshot, NoEvent)
            ELSE /\ updateFaucetConfigError(Owner, t) = "ok"
                 /\ post.st.tokensPerRequest = t
                 /\ post.st.cooldownTime = c
                 /\ post.st.maxTokensPerDay = m
                 /\ post.st.minTokenBalance = t
                 /\ post.event = <<"FaucetConfigUpdated", t, c, m>>
                 /\ post.st.nextRequestTime = nextRequestTime
                 /\ post.st.dailyRequested = dailyRequested
                 /\ post.st.lastRequestDay = lastRequestDay
                 /\ post.st.totalRequests = totalRequests
                 /\ post.st.totalTokensDistributed = totalTokensDistributed
                 /\ post.st.paused = paused
                 /\ post.st.pool = pool
                 /\ post.st.bal = bal

C20_Witness ==
    /\ config = <<1, UintMax, 1, 1>>
    /\ paused
    /\ pool = 1
    /\ \E a \in Addresses :
          /\ dailyRequested[a] = MaxAmount
          /\ nextRequestTime[a] = DAY
          /\ bal[a] = 1

\* C16: updateFaucetConfig accepts a configuration with maxTokensPerDay <
\* tokensPerRequest, and under such a configuration every requestTokens call
\* with the cooldown satisfied, the faucet unpaused and the pool funded fails
\* with DailyLimitExceeded, for every address and at every time, the error
\* carrying maxTokensPerDay where the address has no usage in the day bucket.
C16_CapBelowRequestIsDailyLimitExceeded ==
    /\ \A cfg \in ConfigInputs :
          (cfg[1] > 0 /\ cfg[3] < cfg[1]) =>
              /\ updateFaucetConfigError(Owner, cfg[1]) = "ok"
              /\ updateFaucetConfigPost(Owner, cfg[1], cfg[2], cfg[3]).st.maxTokensPerDay
                    = cfg[3]
    /\ maxTokensPerDay < tokensPerRequest =>
          \A a \in Addresses, o \in TokenOutcomes :
              (~paused /\ ~CooldownCheckFails(a) /\ pool >= tokensPerRequest) =>
                  /\ requestTokensRun(a, o).err = "DailyLimitExceeded"
                  /\ getDailyUsage(a).requested = 0 =>
                        requestTokensRun(a, o).arg = maxTokensPerDay

\* the address A of the scenario
ScenarioUser == "alice"

\* C15: with tokensPerRequest = 10, cooldownTime = 86400, maxTokensPerDay =
\* 10 and a pool of 100 (the faucet not paused): a claim by A at t = 0
\* succeeds leaving pool = 90 and nextRequestTime[A] = 86400; a claim by A at
\* t = 100 fails with CooldownActive(86300) and changes nothing; a claim by A
\* at t = 86400 succeeds leaving pool = 80.
C15_ScenarioOfThreeClaims ==
    LET A == ScenarioUser
        run == requestTokensRun(A, "ok")
        post == requestTokensPost(A, "ok")
    IN  /\ (now = 0 /\ histLastClaimTime[A] = None /\ pool = 100 /\ ~paused) =>
              /\ run.err = "ok"
              /\ post.pool = 90
              /\ post.nrt[A] = 86400
        /\ (now = 100 /\ histLastClaimTime[A] = 0 /\ pool = 90 /\ ~paused) =>
              /\ nextRequestTime[A] = 86400
              /\ run.err = "CooldownActive"
              /\ run.arg = 86300
              /\ post.nrt = nextRequestTime
              /\ post.dr = dailyRequested
              /\ post.lrd = lastRequestDay
              /\ post.tr = totalRequests
              /\ post.ttd = totalTokensDistributed
              /\ post.pool = pool
              /\ post.bal = bal
              /\ post.event = NoEvent
        /\ (now = 86400 /\ histLastClaimTime[A] = 0 /\ pool = 90 /\ ~paused) =>
              /\ run.err = "ok"
              /\ post.pool = 80
        /\ (histGap[A] = <<86400, 86400>> /\ histSumPaid = 20) =>
              /\ pool = 80
              /\ bal[A] = 20

C15_Witness ==
    /\ histLastClaimTime[ScenarioUser] = 86400
    /\ histGap[ScenarioUser] = <<86400, 86400>>
    /\ now = 86400
    /\ pool = 80

\* C11: a requestTokens invocation that is re-entered from a callback of the
\* token ledger during the disbursement transfer cannot produce a second
\* disbursement: while one execution is inside transfer it holds the lock,
\* no token has moved yet, every nested requestTokens call, by any address
\* and whatever the ledger would answer, fails and pays nothing, and no
\* nested call has ever paid; so the tokens paid are those of one transfer
\* of tokensPerRequest per successful outer invocation.
C11_NoSecondDisbursementByReentry ==
    /\ histNested = 0
    /\ inflight # NoCall =>
          /\ lock
          /\ pool = inflight.before.pool
          /\ bal = inflight.before.bal
          /\ \A a \in Addresses, o \in TokenOutcomes :
                /\ requestTokensRun(a, o).err = "ReentrantCall"
                /\ requestTokensPost(a, o).paid = 0
    /\ Idle => totalTokensDistributed = histSumPaid

C11_Witness ==
    /\ inflight # NoCall
    /\ canUserRequest(inflight.user).canRequest
    /\ pool >= 2 * tokensPerRequest

\* C12: the lock of requestTokens is given back on every exit path (success,
\* each precondition failure, a failed transfer): the lock is held exactly
\* while a requestTokens execution is inside transfer, so between top-level
\* transactions it is never held and no claim of any address is rejected for
\* it, whatever way the claims before it ended.
C12_LockReleasedOnEveryExit ==
    /\ lock <=> inflight # NoCall
    /\ Idle =>
          \A a \in Addresses, o \in TokenOutcomes :
              requestTokensRun(a, o).err # "ReentrantCall"

C12_Witness ==
    /\ Idle
    /\ histExit = "TransferFailed"
    /\ ~lock
    /\ \E a \in Addresses : WouldSucceed(a)

\* C21: withdrawTokens(amount) by the owner, the token ledger carrying out
\* the transfer: with amount = 0 it transfers the entire pool to the owner;
\* with 0 < amount <= pool it transfers exactly amount; with amount > pool
\* it fails with InsufficientFaucetBalance (the spec's InsufficientBalance)
\* and moves nothing; on success the pool decreases and the owner's balance
\* increases by the transferred amount, TokensWithdrawn(owner, transferred
\* amount) is emitted, and no ledger entry, statistic or config value
\* changes.
C21_WithdrawTokensEffect ==
    \A n \in WithdrawInputs :
        LET moved == IF n = 0 THEN pool ELSE n
            post == withdrawTokensPost(Owner, n, "ok")
        IN  IF n > pool
            THEN \A o \in TokenOutcomes :
                    /\ withdrawTokensError(Owner, n, o) = "InsufficientFaucetBalance"
                    /\ withdrawTokensPost(Owner, n, o) = Post(Snapshot, NoEvent)
            ELSE /\ withdrawTokensError(Owner, n, "ok") = "ok"
                 /\ post.st.pool = pool - moved
                 /\ post.st.bal = [bal EXCEPT ![Owner] = @ + moved]
                 /\ post.event = <<"TokensWithdrawn", Owner, moved>>
                 /\ [post.st EXCEPT !.pool = pool, !.bal = bal] = Snapshot

C21_Witness ==
    /\ pool = MaxAmount
    /\ withdrawTokensPost(Owner, 0, "ok").st.bal[Owner] = bal[Owner] + MaxAmount
    /\ withdrawTokensPost(Owner, 1, "ok").st.pool = MaxAmount - 1
    /\ withdrawTokensError(Owner, TokenSupply + 1, "ok") = "InsufficientFaucetBalance"
    /\ \E a \in Addresses : dailyRequested[a] > 0

\* C22: emergencyWithdraw by the owner, the token ledger carrying out the
\* transfer, leaves the pool at 0 in every case: if the balance is > 0 it
\* transfers the whole balance to the owner and emits
\* TokensWithdrawn(owner, balance), also while paused; if the balance is 0
\* it completes without error, without any transfer and without a
\* notification; it writes no storage.
C22_EmergencyWithdrawEmptiesPool ==
    LET post == emergencyWithdrawPost(Owner, "ok") IN
    /\ emergencyWithdrawError(Owner, "ok") = "ok"
    /\ post.st.pool = 0
    /\ [post.st EXCEPT !.pool = pool, !.bal = bal] = Snapshot
    /\ IF pool > 0
        THEN /\ post.st.bal = [bal EXCEPT ![Owner] = @ + pool]
             /\ post.event = <<"TokensWithdrawn", Owner, pool>>
        ELSE /\ post.st.bal = bal
             /\ post.event = NoEvent
             /\ \A o \in TokenOutcomes : emergencyWithdrawError(Owner, o) = "ok"

C22_Witness ==
    /\ paused
    /\ pool = 1
    /\ histSumPaid = 1
    /\ emergencyWithdrawPost(Owner, "ok").st.pool = 0
    /\ emergencyWithdrawPost(Owner, "ok").st.bal[Owner] = bal[Owner] + 1

C24_OnlyOwnerAdministers ==
    \A c \in Addresses \ {Owner} :
        LET unchanged == Post(Snapshot, NoEvent) IN
        /\ \A cfg \in ConfigInputs :
              /\ updateFaucetConfigError(c, cfg[1]) = "NotOwner"
              /\ updateFaucetConfigPost(c, cfg[1], cfg[2], cfg[3]) = unchanged
        /\ \A n \in WithdrawInputs, o \in TokenOutcomes :
              /\ withdrawTokensError(c, n, o) = "NotOwner"
              /\ withdrawTokensPost(c, n, o) = unchanged
        /\ \A o \in TokenOutcomes :
              /\ emergencyWithdrawError(c, o) = "NotOwner"
              /\ emergencyWithdrawPost(c, o) = unchanged
        /\ pauseError(c) = "NotOwner"
        /\ pausePost(c) = unchanged
        /\ unpauseError(c) = "NotOwner"
        /\ unpausePost(c) = unchanged
        /\ \A u \in Addresses :
              /\ resetUserCooldownError(c) = "NotOwner"
              /\ resetUserCooldownPost(c, u) = unchanged

C24_Witness ==
    /\ paused
    /\ pool > 0
    /\ \E c \in Addresses \ {Owner} :
          /\ nextRequestTime[c] > now
          /\ resetUserCooldownError(c) = "NotOwner"
          /\ resetUserCooldownPost(Owner, c).st.nextRequestTime[c] = 0

\* C25: a successful requestTokens by A at time t with day index d applies
\* all of these together: nextRequestTime[A] = t + cooldownTime;
\* dailyRequested[A] = (0 if lastRequestDay[A] < d before the call, else its
\* previous value) + tokensPerRequest; lastRequestDay[A] = d; totalRequests
\* increases by 1; totalTokensDistributed increases by tokensPerRequest; the
\* pool decreases and A's token balance increases by exactly
\* tokensPerRequest; the entries of the other addresses stay as they were.
C25_SuccessfulClaimEffect ==
    \A a \in Addresses :
        WouldSucceed(a) =>
            LET post == requestTokensPost(a, "ok")
                used == IF lastRequestDay[a] < now \div DAY
                            THEN 0 ELSE dailyRequested[a]
            IN  /\ post.nrt = [nextRequestTime EXCEPT ![a] = now + cooldownTime]
                /\ post.dr = [dailyRequested EXCEPT ![a] = used + tokensPerRequest]
                /\ post.lrd = [lastRequestDay EXCEPT ![a] = now \div DAY]
                /\ post.tr = totalRequests + 1
                /\ post.ttd = totalTokensDistributed + tokensPerRequest
                /\ post.pool = pool - tokensPerRequest
                /\ post.bal = [bal EXCEPT ![a] = @ + tokensPerRequest]

C25_Witness ==
    \E a \in Addresses :
        /\ WouldSucceed(a)
        /\ CurrentDay = 1
        /\ lastRequestDay[a] = 0
        /\ dailyRequested[a] = 1
        /\ totalTokensDistributed = 1
        /\ requestTokensPost(a, "ok").dr[a] = 1
        /\ requestTokensPost(a, "ok").lrd[a] = 1

\* what each call of an operation other than requestTokens would log and
\* leave in storage, in the current state
OtherOperationsPosts ==
    {updateFaucetConfigPost(c, cfg[1], cfg[2], cfg[3]) :
        c \in Addresses, cfg \in ConfigInputs}
    \cup {withdrawTokensPost(c, n, o) :
        c \in Addresses, n \in WithdrawInputs, o \in TokenOutcomes}
    \cup {depositTokensPost(c, n, o) :
        c \in Addresses, n \in DepositInputs, o \in TokenOutcomes}
    \cup {emergencyWithdrawPost(c, o) : c \in Addresses, o \in TokenOutcomes}
    \cup {pausePost(c) : c \in Addresses}
    \cup {unpausePost(c) : c \in Addresses}
    \cup {resetUserCooldownPost(c, u) : c \in Addresses, u \in Addresses}

\* C26: totalRequests equals the number of successful claims and the number
\* of TokensRequested notifications emitted: each successful requestTokens
\* emits exactly one TokensRequested(caller, tokensPerRequest) and adds
\* exactly 1 to totalRequests, a failed requestTokens emits none and adds
\* nothing, and no other operation changes totalRequests or emits
\* TokensRequested.
C26_RequestsCountClaimsAndEvents ==
    /\ totalRequests = histClaims
    /\ histEvents = histClaims
    /\ \A a \in Addresses, o \in TokenOutcomes :
          LET post == requestTokensPost(a, o) IN
          IF requestTokensRun(a, o).err = "ok"
              THEN /\ post.event = <<"TokensRequested", a, tokensPerRequest>>
                   /\ post.tr = totalRequests + 1
              ELSE /\ post.event = NoEvent
                   /\ post.tr = totalRequests
    /\ \A post \in OtherOperationsPosts :
          /\ post.st.totalRequests = totalRequests
          /\ post.event = NoEvent \/ post.event[1] # "TokensRequested"

C26_Witness ==
    /\ histClaims = 2
    /\ histEvents = 2
    /\ totalRequests = 2
    /\ \E a, b \in Addresses :
          /\ requestTokensRun(a, "ok").err = "CooldownActive"
          /\ requestTokensRun(b, "false").err = "TransferFailed"

\* C27: construction validates exactly the token address: it fails with
\* InvalidAddress when the token address is zero and otherwise accepts and
\* stores any tokensPerRequest, cooldownTime and maxTokensPerDay, including
\* the tokensPerRequest = 0 that updateFaucetConfig rejects; and a positive
\* tokensPerRequest never becomes zero, so tokensPerRequest > 0 holds in
\* every reachable state if and only if it was > 0 at construction.
C27_ConstructorValidatesTokenOnly ==
    /\ \A xfiToken \in {ZeroAddress, XfiToken}, cfg \in ConstructorInputs :
          /\ constructorError(xfiToken, cfg[1], cfg[2], cfg[3])
                = (IF xfiToken = ZeroAddress THEN "InvalidAddress" ELSE "ok")
          /\ constructorPost(xfiToken, cfg[1], cfg[2], cfg[3]).tokensPerRequest
                = cfg[1]
          /\ updateFaucetConfigError(Owner, cfg[1])
                = (IF cfg[1] = 0 THEN "InvalidAmount" ELSE "ok")
    /\ [][tokensPerRequest > 0 => tokensPerRequest' > 0]_vars

\* a faucet constructed with tokensPerRequest = 0 that has served a claim,
\* where updateFaucetConfig would still reject the value it runs with
C27_Witness ==
    /\ tokensPerRequest = 0
    /\ minTokenBalance = 0
    /\ totalRequests > 0
    /\ updateFaucetConfigError(Owner, tokensPerRequest) = "InvalidAmount"

\* the faucet runs with the configuration it was deployed with
HasDeployedConfig ==
    <<tokensPerRequest, cooldownTime, maxTokensPerDay>> = DeployedConfig

\* C28 as stated: under the deployed configuration (10 / 86400 / 10), after
\* any sequence of operations, a claim by an address that has claimed before
\* succeeds only 86400 seconds or more after its previous successful claim.
C28_OneClaimPerDayWindow ==
    \A a \in Addresses :
        (HasDeployedConfig /\ histLastClaimTime[a] # None /\ WouldSucceed(a))
            => now - histLastClaimTime[a] >= DAY

\* C28, amended: an address whose latest successful claim was made while
\* cooldownTime was 86400, and whose cooldown the owner has not reset since,
\* succeeds again only 86400 seconds or more after that claim, whatever other
\* operations, configuration updates included, took place in between.
C28_OneClaimPerCooldownUnlessReset ==
    \A a \in Addresses :
        (/\ histLastClaimTime[a] # None
         /\ histLastCooldown[a] = DAY
         /\ ~histResetSince[a]
         /\ WouldSucceed(a))
            => now - histLastClaimTime[a] >= DAY

\* the second claim of an address is about to succeed a day after its first,
\* the owner having changed the configuration in between
C28_Witness ==
    \E a \in Addresses :
        /\ histLastClaimTime[a] # None
        /\ histLastCooldown[a] = DAY
        /\ ~histResetSince[a]
        /\ ~HasDeployedConfig
        /\ WouldSucceed(a)
        /\ now - histLastClaimTime[a] = DAY

\* C29: whenever a claim passes the pause and cooldown checks but the
\* caller's usage of the current day bucket (0 after a rollover) plus
\* tokensPerRequest exceeds maxTokensPerDay, requestTokens fails with
\* DailyLimitExceeded carrying maxTokensPerDay minus that usage, which is
\* getDailyUsage(caller).remaining, also where the stored usage of the day is
\* greater than maxTokensPerDay.
C29_DailyLimitCarriesRemaining ==
    \A a \in Addresses, o \in TokenOutcomes :
        LET run == requestTokensRun(a, o)
            used == IF lastRequestDay[a] < CurrentDay THEN 0
                    ELSE dailyRequested[a]
        IN  (/\ ~paused
             /\ ~(now < nextRequestTime[a])
             /\ used + tokensPerRequest > maxTokensPerDay) =>
                /\ run.err = "DailyLimitExceeded"
                /\ run.arg = maxTokensPerDay - used
                /\ run.arg = getDailyUsage(a).remaining

\* C30: getNextRequestTime(A) returns the stored nextRequestTime[A]
\* unadjusted; getRemainingCooldown(A) returns max(0, nextRequestTime[A] -
\* now); a claim by A rejected for cooldown carries CooldownActive(r) with
\* r = nextRequestTime[A] - now > 0, the value getRemainingCooldown(A)
\* returns at that time; and getRemainingCooldown(A) > 0 exactly when
\* canUserRequest(A) reports "Cooldown active".
C30_CooldownViewsAgreeWithClaim ==
    \A a \in Addresses :
        LET left == nextRequestTime[a] - now IN
        /\ getNextRequestTime(a) = nextRequestTime[a]
        /\ getRemainingCooldown(a) = (IF left > 0 THEN left ELSE 0)
        /\ \A o \in TokenOutcomes :
              LET run == requestTokensRun(a, o) IN
              run.err = "CooldownActive" =>
                  /\ run.arg = left
                  /\ run.arg > 0
                  /\ run.arg = getRemainingCooldown(a)
        /\ getRemainingCooldown(a) > 0
              <=> canUserRequest(a).reason = "Cooldown active"

\* half a day into its cooldown of a day an address is rejected with the
\* half day left, which both views report, while an address whose
\* nextRequestTime lies in the past has nothing left
C30_Witness ==
    \E a, b \in Addresses :
        /\ now = DAY \div 2
        /\ nextRequestTime[a] = DAY
        /\ requestTokensRun(a, "ok").err = "CooldownActive"
        /\ requestTokensRun(a, "ok").arg = DAY \div 2
        /\ getRemainingCooldown(a) = DAY \div 2
        /\ getNextRequestTime(a) = DAY
        /\ canUserRequest(a).reason = "Cooldown active"
        /\ nextRequestTime[b] < now
        /\ getRemainingCooldown(b) = 0
        /\ canUserRequest(b).reason # "Cooldown active"

\* C31: getDailyUsage(A) returns requested = 0 when lastRequestDay[A] is
\* before the current day index and requested = dailyRequested[A] otherwise,
\* and remaining = max(0, maxTokensPerDay - requested), which never
\* underflows, not even when requested > maxTokensPerDay after the cap was
\* lowered; requested + remaining = maxTokensPerDay whenever requested <=
\* maxTokensPerDay.
C31_DailyUsageView ==
    \A a \in Addresses :
        LET usage == getDailyUsage(a)
            left == maxTokensPerDay - usage.requested
        IN  /\ lastRequestDay[a] < now \div DAY => usage.requested = 0
            /\ lastRequestDay[a] >= now \div DAY =>
                  usage.requested = dailyRequested[a]
            /\ usage.remaining = (IF left > 0 THEN left ELSE 0)
            /\ usage.remaining \in 0..UintMax
            /\ usage.requested <= maxTokensPerDay =>
                  usage.requested + usage.remaining = maxTokensPerDay

\* on day 1 one address reads 0 over its stored usage of day 0, and another
\* has used more than the cap the owner lowered afterwards
C31_Witness ==
    \E a, b \in Addresses :
        /\ lastRequestDay[a] < now \div DAY
        /\ dailyRequested[a] > 0
        /\ getDailyUsage(a) = [requested |-> 0, remaining |-> maxTokensPerDay]
        /\ lastRequestDay[b] = now \div DAY
        /\ dailyRequested[b] > maxTokensPerDay
        /\ getDailyUsage(b) = [requested |-> dailyRequested[b], remaining |-> 0]

\* C32: when canUserRequest(A) returns false, its reason is that of the first
\* failing check in the order cooldown ("Cooldown active"), daily limit with
\* rollover ("Daily limit exceeded"), pool balance ("Insufficient faucet
\* balance"), pause flag ("Faucet is paused"); when it returns true the
\* reason is the empty string; the pause reason is reported only when the
\* three other checks pass.
C32_CanUserRequestReasonOrder ==
    \A a \in Addresses :
        LET view == canUserRequest(a)
            used == IF lastRequestDay[a] < now \div DAY THEN 0
                    ELSE dailyRequested[a]
            cooldown == now < nextRequestTime[a]
            limit == used + tokensPerRequest > maxTokensPerDay
            balance == pool < tokensPerRequest
        IN  ~view.reverted =>
                /\ view.reason =
                      (IF cooldown THEN "Cooldown active"
                       ELSE IF limit THEN "Daily limit exceeded"
                       ELSE IF balance THEN "Insufficient faucet balance"
                       ELSE IF paused THEN "Faucet is paused"
                       ELSE "")
                /\ view.canRequest <=> view.reason = ""
                /\ view.canRequest <=> ~(cooldown \/ limit \/ balance \/ paused)
                /\ view.reason = "Faucet is paused" =>
                      ~cooldown /\ ~limit /\ ~balance

\* the faucet is paused and the view gives one address the pause as reason
\* and another its cooldown
C32_Witness ==
    \E a, b \in Addresses :
        /\ paused
        /\ canUserRequest(a) = View(FALSE, FALSE, "Faucet is paused")
        /\ canUserRequest(b) = View(FALSE, FALSE, "Cooldown active")

\* C33: the passage of time changes no stored value, and the views are
\* functions of the state that change nothing: after a day boundary is
\* crossed the stored dailyRequested[A] and lastRequestDay[A] keep their
\* prior-day values, although getDailyUsage(A).requested already reads 0.
C33_TimeAndViewsChangeNothingStored ==
    [][now' # now =>
          /\ storage' = storage
          /\ token' = token
          /\ getFaucetStats' = getFaucetStats
          /\ \A a \in Addresses :
                /\ getNextRequestTime(a)' = getNextRequestTime(a)
                /\ lastRequestDay[a] < now' \div DAY =>
                      /\ dailyRequested'[a] = dailyRequested[a]
                      /\ lastRequestDay'[a] = lastRequestDay[a]
                      /\ getDailyUsage(a)'.requested = 0]_vars

\* a day boundary has been crossed since the claim of an address: the
\* storage still holds its usage and day index of the day before
C33_Witness ==
    \E a \in Addresses :
        /\ now = DAY
        /\ histLastClaimTime[a] = 0
        /\ lastRequestDay[a] = 0
        /\ dailyRequested[a] = ScenarioConfig.tokensPerRequest
        /\ getDailyUsage(a).requested = 0

\* the ledger entry of address a in a snapshot of the storage
EntryIn(st, a) ==
    <<st.nextRequestTime[a], st.dailyRequested[a], st.lastRequestDay[a]>>

\* P holds of what every call of updateFaucetConfig, withdrawTokens,
\* depositTokens, emergencyWithdraw, pause and unpause leaves behind
AfterEveryOwnerOrDepositCall(P(_)) ==
    /\ \A c \in Addresses, cfg \in ConfigInputs :
          P(updateFaucetConfigPost(c, cfg[1], cfg[2], cfg[3]))
    /\ \A c \in Addresses, n \in WithdrawInputs, o \in TokenOutcomes :
          P(withdrawTokensPost(c, n, o))
    /\ \A c \in Addresses, n \in DepositInputs, o \in TokenOutcomes :
          P(depositTokensPost(c, n, o))
    /\ \A c \in Addresses, o \in TokenOutcomes : P(emergencyWithdrawPost(c, o))
    /\ \A c \in Addresses : P(pausePost(c))
    /\ \A c \in Addresses : P(unpausePost(c))

\* the call leaves every ledger entry as it was, and in place
KeepsEveryEntry(post) ==
    /\ DOMAIN post.st.nextRequestTime = Addresses
    /\ \A a \in Addresses : EntryIn(post.st, a) = EntryIn(Snapshot, a)

\* C34: the ledger entry of A (nextRequestTime[A], dailyRequested[A],
\* lastRequestDay[A]) is changed only by a successful requestTokens made by A
\* itself or by the owner's resetUserCooldown(A); claims by other addresses,
\* failed claims, deposits, withdrawals, config updates and pause/unpause
\* leave it unchanged, and an entry is never removed.
C34_EntryChangedByOwnClaimOrReset ==
    /\ DOMAIN nextRequestTime = Addresses
    /\ DOMAIN dailyRequested = Addresses
    /\ DOMAIN lastRequestDay = Addresses
    /\ \A a \in Addresses :
          /\ \A b \in Addresses, o \in TokenOutcomes :
                LET post == requestTokensPost(b, o) IN
                (b # a \/ requestTokensRun(b, o).err # "ok") =>
                    <<post.nrt[a], post.dr[a], post.lrd[a]>> = EntryIn(Snapshot, a)
          /\ \A c, u \in Addresses :
                (u # a \/ c # Owner) =>
                    EntryIn(resetUserCooldownPost(c, u).st, a) = EntryIn(Snapshot, a)
    /\ AfterEveryOwnerOrDepositCall(KeepsEveryEntry)

\* two addresses have entries set by their claims; a claim by the one and
\* the reset of the other are about to change exactly their own entry
C34_Witness ==
    \E a, b \in Addresses :
        /\ a # b
        /\ nextRequestTime[a] > 0 /\ dailyRequested[a] > 0
        /\ nextRequestTime[b] > 0 /\ dailyRequested[b] > 0
        /\ WouldSucceed(b)
        /\ requestTokensPost(b, "ok").nrt[b] # nextRequestTime[b]
        /\ EntryIn(resetUserCooldownPost(Owner, a).st, a) # EntryIn(Snapshot, a)

\* the tokens held by the accounts in S under the balances b
RECURSIVE HeldBy(_, _)
HeldBy(b, S) ==
    IF S = {} THEN 0
    ELSE LET a == CHOOSE x \in S : TRUE IN b[a] + HeldBy(b, S \ {a})

\* the tokens in existence: the pool and the balances of the accounts
Supply(p, b) == p + HeldBy(b, Addresses)

\* the call creates and destroys no token, distributes none, and moves
\* tokens out of the pool to the owner only
MovesTokensToOwnerOnly(post) ==
    /\ Supply(post.st.pool, post.st.bal) = Supply(pool, bal)
    /\ post.st.totalTokensDistributed = totalTokensDistributed
    /\ post.st.pool < pool =>
          post.st.bal = [bal EXCEPT ![Owner] = @ + (pool - post.st.pool)]

\* C35: counting only the faucet's own operations, the pool balance equals
\* the initial balance plus the sum of successful deposits minus
\* totalTokensDistributed minus the sum of successful owner withdrawals
\* (withdrawTokens and emergencyWithdraw); every token leaving the pool goes
\* either to a claiming caller or to the owner, and no operation creates or
\* destroys tokens.
C35_PoolAccounting ==
    /\ pool = histFunded - totalTokensDistributed
    /\ pool >= 0
    /\ Supply(pool, bal) = ScenarioConfig.pool
    /\ \A a \in Addresses, o \in TokenOutcomes :
          LET post == requestTokensPost(a, o) IN
          /\ Supply(post.pool, post.bal) = Supply(pool, bal)
          /\ post.pool <= pool
          /\ post.bal = [bal EXCEPT ![a] = @ + (pool - post.pool)]
          /\ post.ttd = totalTokensDistributed + (pool - post.pool)
    /\ AfterEveryOwnerOrDepositCall(MovesTokensToOwnerOnly)
    /\ \A c, u \in Addresses : MovesTokensToOwnerOnly(resetUserCooldownPost(c, u))

\* of the pool of 100 a request of 10 was claimed and the owner withdrew the
\* other 90; the owner is about to deposit one token
C35_Witness ==
    /\ histFunded = ScenarioConfig.tokensPerRequest
    /\ totalTokensDistributed = ScenarioConfig.tokensPerRequest
    /\ pool = 0
    /\ bal["alice"] = ScenarioConfig.tokensPerRequest
    /\ bal[Owner] = ScenarioConfig.pool - ScenarioConfig.tokensPerRequest
    /\ depositTokensPost(Owner, 1, "ok").st.pool = 1
    /\ depositTokensPost(Owner, 1, "ok").st.bal[Owner] = bal[Owner] - 1

\* C36: minTokenBalance equals tokensPerRequest in every reachable state,
\* from construction onward and after every successful or failed
\* updateFaucetConfig, and it takes no part in deciding whether a claim
\* succeeds: a claim that passes the pause, cooldown, daily limit and
\* balance checks succeeds, also when it leaves the pool below
\* minTokenBalance.
C36_MinTokenBalanceFollowsPerRequest ==
    /\ minTokenBalance = tokensPerRequest
    /\ \A c \in Addresses, cfg \in ConfigInputs :
          LET st == updateFaucetConfigPost(c, cfg[1], cfg[2], cfg[3]).st
          IN  st.minTokenBalance = st.tokensPerRequest
    /\ \A a \in Addresses :
          LET used == IF lastRequestDay[a] < now \div DAY THEN 0
                      ELSE dailyRequested[a]
          IN  WouldSucceed(a) <=>
                  /\ ~paused
                  /\ now >= nextRequestTime[a]
                  /\ used + tokensPerRequest <= maxTokensPerDay
                  /\ pool >= tokensPerRequest
                  /\ now + cooldownTime <= UintMax

\* after a claim and a configuration update the pool is below
\* minTokenBalance
C36_Witness ==
    /\ tokensPerRequest = MaxAmount
    /\ cooldownTime = 0
    /\ maxTokensPerDay = 1
    /\ minTokenBalance = MaxAmount
    /\ totalRequests > 0
    /\ pool < minTokenBalance

\* C37: the client submits a requestTokens transaction only when the most
\* recently polled canUserRequest(wallet) result was true (and no claim is
\* in flight), it polls canUserRequest and getRemainingCooldown again after
\* each confirmed successful claim, and canUserRequest is the only condition
\* that enables the claim action.
C37_ClientGatesOnCanUserRequest ==
    clientVersion \in ClientVersions =>
        /\ isLoading => histPolledAtSubmit = "true"
        /\ ClaimEnabled <=> histPolled = "true"
        /\ histLastClaimTime[Wallet] # None =>
              {"canUserRequest", "getRemainingCooldown"} \subseteq histRepolled

\* the faucet is unpaused, its daily cap admits one request, and its pool
\* holds one request
ClaimPremise ==
    /\ ~paused
    /\ maxTokensPerDay >= tokensPerRequest
    /\ pool >= tokensPerRequest

\* C38: while the faucet is unpaused, its cap admits a request and its pool
\* holds one, a claim by A at a time that is at least nextRequestTime[A] and
\* in a day bucket later than lastRequestDay[A] succeeds, and as time
\* advances every address A reaches a time at which its claim succeeds.
C38_NoAddressBlockedForever ==
    /\ [](\A a \in Addresses :
            (ClaimPremise /\ now >= nextRequestTime[a]
                /\ CurrentDay > lastRequestDay[a]) => WouldSucceed(a))
    /\ \A a \in Addresses :
          ClaimPremise ~> (~ClaimPremise \/ WouldSucceed(a))

\* the step is a successful claim by a
ClaimedInStep(a) ==
    /\ totalRequests' = totalRequests + 1
    /\ histLastClaimTime'[a] = now
    /\ bal'[a] = bal[a] + tokensPerRequest

\* C39: in every reachable state, for every address A, lastRequestDay[A] is
\* at most the current day index and nextRequestTime[A] is 0 or the time of
\* A's last successful claim plus the cooldownTime in force at that claim; a
\* successful claim by A never decreases nextRequestTime[A], and a step that
\* lowers it is resetUserCooldown(A), which sets it to 0 and changes nothing
\* else.
C39_LedgerEntryBounds ==
    /\ [](\A a \in Addresses :
            /\ lastRequestDay[a] <= CurrentDay
            /\ \/ nextRequestTime[a] = 0
               \/ /\ histLastClaimTime[a] # None
                  /\ nextRequestTime[a] = histLastClaimTime[a] + histLastCooldown[a])
    /\ [][\A a \in Addresses :
            /\ ClaimedInStep(a) =>
                  /\ nextRequestTime'[a] >= nextRequestTime[a]
                  /\ nextRequestTime'[a] = now + cooldownTime
            /\ nextRequestTime'[a] < nextRequestTime[a] =>
                  /\ Snapshot' = CooldownReset(a)
                  /\ histResetSince'[a]]_vars

\* an address has claimed on a later day than day 0 and waits for
\* its cooldown, while the cooldown another address had from its claim has
\* been reset to 0
C39_Witness ==
    \E a, b \in Addresses :
        /\ a # b
        /\ lastRequestDay[a] = CurrentDay /\ CurrentDay > 0
        /\ nextRequestTime[a] = histLastClaimTime[a] + histLastCooldown[a]
        /\ nextRequestTime[a] > now
        /\ histLastClaimTime[b] # None /\ histResetSince[b]
        /\ nextRequestTime[b] = 0

====
